---------------------------- MODULE Spec2Model ----------------------------
(***************************************************************************)
(* A model of the Alma API gateway of the AlmaAPITK repository:            *)
(*   - BaseAPIClient      (src/src/core/base_client.py): rate limiter,     *)
(*                        retry with backoff, error mapping, request       *)
(*                        headers, AlmaResponse and its accessors;         *)
(*   - ConfigManager      (src/core/config_manager.py): construction from  *)
(*                        the process environment, environments, headers;  *)
(*   - AlmaClient         (src/client.py): environment switching and the   *)
(*                        rate-limit setter on top of BaseAPIClient;       *)
(*   - AlmaAPIClient      (src/src/client/AlmaAPIClient.py).               *)
(* Time is counted in whole seconds.  Strings that the code normalises     *)
(* with str.upper() are sequences of one-character strings.                *)
(***************************************************************************)
EXTENDS Integers, Sequences, FiniteSets, TLC

VARIABLES
    now,            \* wall clock, time.time()
    request_times,  \* BaseAPIClient._request_times
    rate_limit,     \* BaseAPIClient._rate_limit
    pc,             \* position of the (single) calling thread
    caller,         \* who started the running logical call
    method,         \* _make_request: method
    retry_count,    \* _make_request: retry_count
    result,         \* what the last logical call returned or raised
    sent,           \* history: the time of every HTTP attempt of the instance
    attempts,       \* history: HTTP attempts of the running/last logical call
    delays,         \* history: backoff sleeps of the running/last logical call
    slept,          \* history: the sleep of the last _enforce_rate_limit
    since,          \* history: Len(sent) when the limit was last changed
    passes,         \* history: the number of _enforce_rate_limit runs
    seen,           \* history: the status of each attempt of the logical call
    last_response,  \* history: the response of the latest HTTP attempt
    stamps,         \* history: timestamps recorded for the running/last call
    current_environment, \* ConfigManager.current_environment
    cm_headers,     \* ConfigManager.headers
    bc_headers,     \* AlmaClient.base_client.headers
    bc_base_url,    \* AlmaClient.base_client.base_url
    client,         \* AlmaClient: "none" before / "ready" after construction
    bc_prepared,    \* the last BaseAPIClient._prepare_headers call, until the
                    \* environment is set again
    sw,             \* AlmaClient.switch_environment: the running/last call
    os_env,         \* the process environment read by os.getenv
    environment,    \* AlmaAPIClient.environment
    api_key,        \* AlmaAPIClient.api_key
    base_url,       \* AlmaAPIClient.base_url
    default_headers,\* AlmaAPIClient.default_headers
    prepared,       \* what the last AlmaAPIClient._prepare_headers returned
    os_rest,        \* the other required names present in os.environ
    built,          \* the last constructor call and what it produced
    read,           \* the last AlmaResponse built and the accessor read from it
    report,         \* what the last AlmaClient.get_rate_limit_status returned
    safe,           \* the last AlmaAPIClient.safe_request call
    inv,            \* AutomatedInvoiceProcessor: the run of process_all_invoices
    adm,            \* Admin.get_set_members: the call in progress or ended
    marc,           \* BibliographicRecords._build_updated_marc_xml: the last call
    last            \* AlmaAPIClient / ConfigManager: the last operation

gw_vars  == <<now, request_times, rate_limit, pc, caller, method, retry_count,
              result, sent, attempts, delays, slept, since, passes, seen,
              last_response, stamps>>
cfg_vars == <<current_environment, cm_headers, bc_headers, bc_base_url, client,
              bc_prepared, sw>>
ext_vars == <<os_rest, built, read>>
aux_vars == <<report, safe, inv, adm, marc>>
api_vars == <<os_env, environment, api_key, base_url, default_headers,
              prepared, ext_vars, aux_vars>>
vars     == <<gw_vars, cfg_vars, api_vars, last>>

-----------------------------------------------------------------------------
(* Bounds of the model *)

MaxTime  == 80     \* no logical call starts and no idle time passes after it
MaxPasses == 4     \* no logical call starts once the limiter ran this often
MaxLimit == 2      \* set_rate_limit is tried with every n in -1..MaxLimit
TickStep == 20     \* idle time passes in steps of this many seconds
MaxInvoices == 3   \* process_all_invoices is given at most this many IDs
MaxCeiling == 2    \* max_errors_before_stop is None or in 0..MaxCeiling
MaxMembers == 250  \* a set reports at most this many members
MaxDatafields == 3 \* a MARC record holds at most this many data fields

(* Program constants *)

DEFAULT_RATE_LIMIT == 100
MAX_RETRIES        == 3
RETRY_DELAY        == 1
WINDOW             == 60
RETRY_STATUS_CODES == {429, 500, 502, 503, 504}
NoStatus           == -1    \* status_code = None

-----------------------------------------------------------------------------
(* str.upper() and str.lower() on the letters the inputs use *)

LowerLetters == <<"a","b","c","d","e","g","i","j","l","m","n","o","p","r","s",
                  "t","u","x">>
UpperLetters == <<"A","B","C","D","E","G","I","J","L","M","N","O","P","R","S",
                  "T","U","X">>

UpperChar(c) ==
    IF \E i \in DOMAIN LowerLetters : LowerLetters[i] = c
    THEN UpperLetters[CHOOSE i \in DOMAIN LowerLetters : LowerLetters[i] = c]
    ELSE c

Upper(s) == [i \in DOMAIN s |-> UpperChar(s[i])]

LowerChar(c) ==
    IF \E i \in DOMAIN UpperLetters : UpperLetters[i] = c
    THEN LowerLetters[CHOOSE i \in DOMAIN UpperLetters : UpperLetters[i] = c]
    ELSE c

Lower(s) == [i \in DOMAIN s |-> LowerChar(s[i])]

GET    == <<"G","E","T">>
POST   == <<"P","O","S","T">>
PUT    == <<"P","U","T">>
DELETE == <<"D","E","L","E","T","E">>

\* the methods a caller passes to _make_request
Methods == {GET, <<"g","e","t">>, POST, PUT, DELETE, <<"P","A","T","C","H">>}

\* no logical call is running
NoMethod == <<>>

\* mutant: the method is compared as written, without upper()
SupportedMethodAsWritten(m) == m \in {GET, POST, PUT, DELETE}

SupportedMethod(m) == Upper(m) \in {GET, POST, PUT, DELETE}

-----------------------------------------------------------------------------
(* Responses of the remote API *)

Statuses == {200, 304, 400, 401, 404, 422, 429, 500, 502, 503, 504}
CTypes   == {"application/json", "application/xml"}
Bodies   == {"{obj}", "<xml/>"}
Responses == [status_code : Statuses, ctype : CTypes, body : Bodies]

\* requests.Response.ok: raise_for_status() raises for 400 <= status < 600
Ok(status) == ~(400 <= status /\ status < 600)

\* AlmaResponse.success
Success(status) == 200 <= status /\ status < 300

\* json.loads on a text: the Python value it returns, by its type and its
\* canonical rendering, or the failure to decode.  "{obj}" stands for the
\* text of a JSON object in the form json.dumps writes it.
JsonLoads(text) ==
    CASE text = "{obj}"     -> [ok |-> TRUE, type |-> "dict", value |-> "{obj}"]
      [] text = "{ obj }"   -> [ok |-> TRUE, type |-> "dict", value |-> "{obj}"]
      [] text = "[1]"       -> [ok |-> TRUE, type |-> "list", value |-> "[1]"]
      [] text = "\"123\"" -> [ok |-> TRUE, type |-> "str", value |-> "123"]
      [] text = "\"abc\"" -> [ok |-> TRUE, type |-> "str", value |-> "abc"]
      [] text = "123"       -> [ok |-> TRUE, type |-> "int", value |-> "123"]
      [] OTHER              -> [ok |-> FALSE, type |-> "error", value |-> text]

\* json.dumps on a dict
JsonDumps(v) == v.value

\* json.loads succeeds on the body
IsJson(body) == JsonLoads(body).ok

NoResponse == [status_code |-> NoStatus, ctype |-> "", body |-> ""]

NoData == [type |-> "none", value |-> ""]

ParseResponse(r) ==
    IF r.ctype = "application/json"
    THEN IF IsJson(r.body) THEN [type |-> "json", value |-> r.body]
                          ELSE [type |-> "text", value |-> r.body]
    ELSE [type |-> "text", value |-> r.body]

\* mutant: the body is returned as raw text, never parsed
AlmaResponseUnparsed(r) ==
    [kind |-> "AlmaResponse", status_code |-> r.status_code,
     data |-> [type |-> "text", value |-> r.body],
     success |-> Success(r.status_code)]

AlmaResponse(r) ==
    [kind |-> "AlmaResponse", status_code |-> r.status_code,
     data |-> ParseResponse(r), success |-> Success(r.status_code)]

\* mutant: 422 is not mapped to the validation error
ErrorKindWithout422(status) ==
    IF status = 401 THEN "AlmaAuthenticationError"
    ELSE IF status = 429 THEN "AlmaRateLimitError"
    ELSE IF status = 400 THEN "AlmaValidationError"
    ELSE "AlmaAPIError"

ErrorKind(status) ==
    IF status = 401 THEN "AlmaAuthenticationError"
    ELSE IF status = 429 THEN "AlmaRateLimitError"
    ELSE IF status \in {400, 422} THEN "AlmaValidationError"
    ELSE "AlmaAPIError"

HandleErrorResponse(r) ==
    [kind |-> ErrorKind(r.status_code), status_code |-> r.status_code,
     data |-> ParseResponse(r), success |-> FALSE]

Raised(kind) ==
    [kind |-> kind, status_code |-> NoStatus, data |-> NoData, success |-> FALSE]

NoResult == [kind |-> "none", status_code |-> NoStatus, data |-> NoData,
             success |-> FALSE]

IsError(res) == res.kind \in {"AlmaAPIError", "AlmaAuthenticationError",
                              "AlmaRateLimitError", "AlmaValidationError"}


-----------------------------------------------------------------------------
(* BaseAPIClient._enforce_rate_limit *)

\* the timestamps younger than one minute, in their order
Prune(times, t) == SelectSeq(times, LAMBDA x : t - x < WINDOW)

\* mutant: the limiter lets one request too many through
AtLimitOffByOne(times, limit) == Len(times) > limit

AtLimit(times, limit) == Len(times) >= limit

SleepTime(times, t) == WINDOW - (t - times[1])

\* the seconds _enforce_rate_limit sleeps when entered at time t
LimiterSleep(times, limit, t) ==
    LET kept == Prune(times, t)
    IN  IF AtLimit(kept, limit) /\ kept # <<>>
        THEN IF SleepTime(kept, t) > 0 THEN SleepTime(kept, t) ELSE 0
        ELSE 0

\* the timestamp _enforce_rate_limit records, entered at t and left at t + s
Recorded(t, s) == t

\* mutant: a timestamp equal to the newest recorded one is not recorded again
RecordUnlessRepeated(times, t) ==
    IF times # <<>> /\ times[Len(times)] = t THEN times ELSE Append(times, t)

\* self._request_times.append(now)
Record(times, t) == Append(times, t)

EnforceRateLimit ==
    /\ pc = "enforce"
    /\ LET s == LimiterSleep(request_times, rate_limit, now)
       IN  /\ now' = now + s
           /\ slept' = s
           /\ request_times' = Record(Prune(request_times, now), Recorded(now, s))
    /\ stamps' = stamps + Len(request_times') - Len(Prune(request_times, now))
    /\ pc' = "request"
    /\ passes' = passes + 1
    /\ UNCHANGED <<rate_limit, caller, method, retry_count, result, sent,
                   attempts, delays, since, seen, last_response>>
    /\ UNCHANGED <<cfg_vars, api_vars, last>>

-----------------------------------------------------------------------------
(* BaseAPIClient._make_request *)

\* mutant: the retry budget is compared with <= and allows a fourth retry
ShouldRetryOnceMore(status, k) == status \in RETRY_STATUS_CODES /\ k <= MAX_RETRIES

\* mutant: a retryable status is retried whatever the number of retries made
ShouldRetryAlways(status, k) == status \in RETRY_STATUS_CODES

ShouldRetry(status, k) == status \in RETRY_STATUS_CODES /\ k < MAX_RETRIES

BackoffDelay(k) == RETRY_DELAY * (2 ^ k)

\* mutant: the transport failure is reported with a gateway-timeout status
NetworkErrorWithStatus == [Raised("AlmaAPIError") EXCEPT !.status_code = 504]

\* except requests.RequestException: raise AlmaAPIError("Network error: ...")
NetworkError == Raised("AlmaAPIError")

\* the logical call ends: control returns to whoever started it
Finish(res) ==
    /\ result' = res
    /\ method' = NoMethod
    /\ pc' = IF caller = "user" THEN "idle" ELSE "tested"

\* one pass of _make_request after the limiter: the HTTP attempt and what the
\* code does with its outcome
Attempt(served) ==
    /\ pc = "request"
    /\ \/ /\ ~SupportedMethod(method)
          /\ Finish(Raised("AlmaValidationError"))
          /\ UNCHANGED <<now, retry_count, sent, attempts, delays, seen,
                         last_response>>
       \/ /\ SupportedMethod(method)
          /\ sent' = Append(sent, now)
          /\ attempts' = attempts + 1
          /\ \/ \* requests.RequestException: connection refused, timeout
                /\ Finish(NetworkError)
                /\ seen' = Append(seen, NoStatus)
                /\ last_response' = NoResponse
                /\ UNCHANGED <<now, retry_count, delays>>
             \/ \E r \in served :
                  /\ seen' = Append(seen, r.status_code)
                  /\ last_response' = r
                  /\ IF ~Ok(r.status_code)
                     THEN IF ShouldRetry(r.status_code, retry_count)
                          THEN /\ now' = now + BackoffDelay(retry_count)
                               /\ delays' = Append(delays, BackoffDelay(retry_count))
                               /\ retry_count' = retry_count + 1
                               /\ pc' = "enforce"
                               /\ UNCHANGED <<result, method>>
                          ELSE /\ Finish(HandleErrorResponse(r))
                               /\ UNCHANGED <<now, retry_count, delays>>
                     ELSE /\ Finish(AlmaResponse(r))
                          /\ UNCHANGED <<now, retry_count, delays>>
    /\ UNCHANGED <<request_times, rate_limit, caller, slept, since, passes,
                   stamps>>
    /\ UNCHANGED <<cfg_vars, api_vars, last>>

\* the entry of a logical call: _make_request(m, ...) with retry_count = 0
StartCall(m, who) ==
    /\ passes < MaxPasses
    /\ now <= MaxTime
    /\ method' = m
    /\ caller' = who
    /\ retry_count' = 0
    /\ attempts' = 0
    /\ delays' = <<>>
    /\ slept' = 0
    /\ result' = NoResult
    /\ seen' = <<>>
    /\ last_response' = NoResponse
    /\ stamps' = 0
    /\ pc' = "enforce"
    /\ UNCHANGED <<now, request_times, rate_limit, sent, since, passes>>

Call(m) ==
    /\ pc = "idle"
    /\ StartCall(m, "user")
    /\ UNCHANGED <<cfg_vars, api_vars, last>>

-----------------------------------------------------------------------------
(* BibliographicRecords.search_records *)

MAX_SEARCH_LIMIT == 100

\* the two checks search_records makes before it builds the request
SearchRejected(q, limit) == q = "" \/ limit > MAX_SEARCH_LIMIT

\* search_records(q, limit): a validation error, or client.get(...)
SearchRecords(q, limit) ==
    /\ pc = "idle"
    /\ IF SearchRejected(q, limit)
       THEN /\ result' = Raised("AlmaValidationError")
            /\ retry_count' = 0
            /\ attempts' = 0
            /\ delays' = <<>>
            /\ slept' = 0
            /\ seen' = <<>>
            /\ last_response' = NoResponse
            /\ stamps' = 0
            /\ UNCHANGED <<now, request_times, rate_limit, pc, caller, method,
                           sent, since, passes>>
       ELSE StartCall(GET, "user")
    /\ UNCHANGED <<cfg_vars, api_vars, last>>

-----------------------------------------------------------------------------
(* The clock *)

\* time passes between two logical calls
Tick ==
    /\ pc = "idle"
    /\ now + TickStep <= MaxTime
    /\ now' = now + TickStep
    /\ UNCHANGED <<request_times, rate_limit, pc, caller, method, retry_count,
                   result, sent, attempts, delays, slept, since, passes, seen,
                   last_response,
                   stamps>>
    /\ UNCHANGED <<cfg_vars, api_vars, last>>

-----------------------------------------------------------------------------
(* AlmaClient.set_rate_limit *)

\* mutant: the guard is n < 0 and lets zero through
RateLimitAcceptedZero(n) == ~(n < 0)

RateLimitAccepted(n) == ~(n <= 0)

SetRateLimit(n) ==
    /\ pc = "idle"
    /\ IF RateLimitAccepted(n)
       THEN /\ rate_limit' = n
            /\ since' = IF n = rate_limit THEN since ELSE Len(sent)
            /\ result' = NoResult
       ELSE /\ result' = Raised("ValueError")
            /\ UNCHANGED <<rate_limit, since>>
    /\ UNCHANGED <<now, request_times, pc, caller, method, retry_count, sent,
                   attempts, delays, slept, passes, seen, last_response,
                   stamps>>
    /\ UNCHANGED <<cfg_vars, api_vars, last>>

-----------------------------------------------------------------------------
(* AlmaClient.get_rate_limit_status *)

Max(a, b) == IF a >= b THEN a ELSE b

NoReport == [asked |-> FALSE, requests_in_last_minute |-> 0, rate_limit |-> 0,
             requests_remaining |-> 0, recent |-> 0]

\* the dictionary get_rate_limit_status returns; recent is history: the
\* number of recorded timestamps younger than one minute when it was asked
GetRateLimitStatus ==
    /\ pc = "idle"
    /\ report' =
          [asked |-> TRUE,
           requests_in_last_minute |-> Len(request_times),
           rate_limit |-> rate_limit,
           requests_remaining |-> Max(0, rate_limit - Len(request_times)),
           recent |-> Len(Prune(request_times, now))]
    /\ UNCHANGED <<os_env, environment, api_key, base_url, default_headers,
                   prepared, ext_vars, safe, inv, adm, marc>>
    /\ UNCHANGED <<gw_vars, cfg_vars, last>>

-----------------------------------------------------------------------------
(* ConfigManager: the values of its fields *)

None == <<"None">>          \* the value None where a string is expected

SB         == <<"S","B">>
PROD       == <<"P","R","O","D">>
SANDBOX    == <<"S","A","N","D","B","O","X">>
PRODUCTION == <<"P","R","O","D","U","C","T","I","O","N">>

KEY_SB   == "key-sb"        \* the value of ALMA_SB_API_KEY
KEY_PROD == "key-prod"      \* the value of ALMA_PROD_API_KEY
BASE_URL == "https://api-eu.hosted.exlibrisgroup.com"

NoHeaders == [authorization |-> <<"None">>, accept |-> "None",
              content_type |-> "None"]

\* the last operation on a ConfigManager or an AlmaAPIClient, with the
\* observable state it started from
NoOp == [op |-> "none", arg |-> None, raised |-> FALSE,
         before |-> [environment |-> None, headers |-> NoHeaders,
                     api_key |-> "None", base_url |-> "None"]]

\* AlmaClient.switch_environment: the call in progress or just returned
NoSwitch == [state |-> "none", arg |-> None, ret |-> FALSE,
             before |-> [environment |-> None, headers |-> NoHeaders,
                         base_url |-> "None"]]

-----------------------------------------------------------------------------
(* BaseAPIClient._prepare_headers *)

JSON == <<"j","s","o","n">>
XML  == <<"x","m","l">>

\* the content_type and accept arguments callers pass
ContentArgs == {JSON, XML}
AcceptArgs  == {JSON, <<"X","M","L">>}

\* the dict _prepare_headers returns: a copy of self.headers with its keys
\* 'authorization', 'accept', 'content-type', and the keys 'Content-Type'
\* and 'Accept' inserted after them
BasePrepareHeaders(headers, content_type, accept) ==
    [authorization |-> headers.authorization,
     accept        |-> headers.accept,
     content_type  |-> headers.content_type,
     Content_Type  |-> IF Lower(content_type) = XML
                       THEN "application/xml;charset=utf-8"
                       ELSE "application/json;charset=utf-8",
     Accept        |-> IF Lower(accept) = XML THEN "application/xml"
                                              ELSE "application/json"]

\* the header fields requests sends for that dict: names are compared without
\* regard to case and the key inserted last gives the value
SentHeaders(h) ==
    [authorization |-> h.authorization, accept |-> h.Accept,
     content_type |-> h.Content_Type]

NoPrepared ==
    [op |-> "none", content_type |-> JSON, accept |-> JSON,
     environment |-> None, before |-> NoHeaders, after |-> NoHeaders,
     headers |-> [authorization |-> <<"None">>, accept |-> "None",
                  content_type |-> "None", Content_Type |-> "None",
                  Accept |-> "None"]]

\* a caller of the AlmaClient has its base_client prepare the headers of a request
ClientPrepareHeaders(content_type, accept) ==
    /\ client = "ready"
    /\ pc = "idle"
    /\ bc_prepared' =
          [op |-> "prepare_headers", content_type |-> content_type,
           accept |-> accept, environment |-> current_environment,
           before |-> bc_headers, after |-> bc_headers,
           headers |-> BasePrepareHeaders(bc_headers, content_type, accept)]
    /\ UNCHANGED <<current_environment, cm_headers, bc_headers, bc_base_url,
                   client, sw>>
    /\ UNCHANGED <<gw_vars, api_vars, last>>

-----------------------------------------------------------------------------
(* ConfigManager: set_headers, get_api_key, set_environment *)

ConfigHeaders(key) ==
    [authorization |-> <<"apikey ", key>>, accept |-> "application/json",
     content_type |-> "application/json; charset=utf-8"]

\* ConfigManager.set_headers: the headers it leaves and whether it raised
SetHeaders(env, headers) ==
    IF env = SB THEN [headers |-> ConfigHeaders(KEY_SB), raised |-> FALSE]
    ELSE IF env = PROD THEN [headers |-> ConfigHeaders(KEY_PROD), raised |-> FALSE]
    ELSE [headers |-> headers, raised |-> TRUE]

\* ConfigManager.get_api_key
GetApiKey(env) ==
    IF env = SB THEN KEY_SB
    ELSE IF env = PROD THEN KEY_PROD
    ELSE "None"

\* the environment names callers pass
EnvNames == {SB, <<"s","b">>, PROD, <<"P","r","o","d">>, SANDBOX,
             <<"T","E","S","T">>}

\* ConfigManager.set_environment, called by the user of the ConfigManager
SetEnvironment(name) ==
    /\ pc = "idle"
    /\ client # "testing"
    /\ LET env == Upper(name)
           r   == SetHeaders(env, cm_headers)
       IN  /\ current_environment' = env
           /\ cm_headers' = r.headers
           /\ last' = [op |-> "set_environment", arg |-> name,
                       raised |-> r.raised,
                       before |-> [environment |-> current_environment,
                                   headers |-> cm_headers,
                                   api_key |-> GetApiKey(current_environment),
                                   base_url |-> BASE_URL]]
    /\ sw' = NoSwitch
    /\ bc_prepared' = NoPrepared
    /\ UNCHANGED <<bc_headers, bc_base_url, client>>
    /\ UNCHANGED <<gw_vars, api_vars>>

-----------------------------------------------------------------------------
(* AlmaClient *)

\* AlmaClient.__init__ up to the start of its connection test
AlmaClientInit(name) ==
    /\ client = "none"
    /\ pc = "idle"
    /\ LET env == Upper(name)
           r   == SetHeaders(env, cm_headers)
       IN  /\ current_environment' = env
           /\ cm_headers' = r.headers
           /\ last' = NoOp
           /\ sw' = NoSwitch
           /\ IF r.raised
              THEN /\ UNCHANGED <<bc_headers, bc_base_url, client>>
                   /\ UNCHANGED gw_vars
              ELSE /\ bc_headers' = r.headers
                   /\ bc_base_url' = BASE_URL
                   /\ client' = "testing"
                   /\ StartCall(GET, "init")
    /\ UNCHANGED bc_prepared
    /\ UNCHANGED api_vars

\* AlmaClient.__init__ after its connection test: the result is only logged
AlmaClientReady ==
    /\ pc = "tested"
    /\ caller = "init"
    /\ client' = "ready"
    /\ pc' = "idle"
    /\ UNCHANGED <<now, request_times, rate_limit, caller, method, retry_count,
                   result, sent, attempts, delays, slept, since, passes, seen,
                   last_response,
                   stamps>>
    /\ UNCHANGED <<current_environment, cm_headers, bc_headers, bc_base_url,
                   bc_prepared, sw>>
    /\ UNCHANGED <<api_vars, last>>

\* AlmaClient.switch_environment up to the start of its connection test
SwitchEnvironment(name) ==
    /\ client = "ready"
    /\ pc = "idle"
    /\ passes < MaxPasses
    /\ LET env == Upper(name)
           r   == SetHeaders(env, cm_headers)
           before == [environment |-> current_environment,
                      headers |-> bc_headers, base_url |-> bc_base_url]
       IN  /\ current_environment' = env
           /\ cm_headers' = r.headers
           /\ last' = NoOp
           /\ IF r.raised
              THEN /\ sw' = [state |-> "returned", arg |-> name, ret |-> FALSE,
                             before |-> before]
                   /\ UNCHANGED <<bc_headers, bc_base_url>>
                   /\ UNCHANGED gw_vars
              ELSE /\ sw' = [state |-> "testing", arg |-> name, ret |-> FALSE,
                             before |-> before]
                   /\ bc_headers' = r.headers
                   /\ bc_base_url' = BASE_URL
                   /\ StartCall(GET, "switch")
    /\ bc_prepared' = NoPrepared
    /\ UNCHANGED client
    /\ UNCHANGED api_vars

\* BaseAPIClient.test_connection: response.success, False on any exception
TestConnection(res) == res.kind = "AlmaResponse" /\ res.success

\* AlmaClient.switch_environment after its connection test
SwitchEnvironmentReturn ==
    /\ pc = "tested"
    /\ caller = "switch"
    /\ sw' = [sw EXCEPT !.state = "returned", !.ret = TestConnection(result)]
    /\ pc' = "idle"
    /\ UNCHANGED <<now, request_times, rate_limit, caller, method, retry_count,
                   result, sent, attempts, delays, slept, since, passes, seen,
                   last_response,
                   stamps>>
    /\ UNCHANGED <<current_environment, cm_headers, bc_headers, bc_base_url,
                   client, bc_prepared>>
    /\ UNCHANGED <<api_vars, last>>

-----------------------------------------------------------------------------
(* AlmaResponse and the body BaseAPIClient._parse_response gives it *)

\* the Content-Type headers and the bodies of the responses read back
ResponseTypes == {"application/json", "application/json; charset=UTF-8",
                  "Application/JSON", "application/xml", "text/plain", ""}
ResponseBodies == {"{obj}", "{ obj }", "[1]", "\"123\"", "\"abc\"", "123",
                   "<xml/>", "abc"}

\* 'application/json' in response.headers.get('Content-Type', '').lower()
DeclaresJson(ctype) ==
    ctype \in {"application/json", "application/json; charset=UTF-8",
               "Application/JSON"}

\* _parse_response: the parsed value, or response.text as a str
ParseBody(ctype, body) ==
    IF DeclaresJson(ctype) /\ IsJson(body)
    THEN [type |-> JsonLoads(body).type, value |-> JsonLoads(body).value]
    ELSE [type |-> "str", value |-> body]

\* AlmaResponse.json
JsonAccessor(data) ==
    IF data.type = "str"
    THEN IF JsonLoads(data.value).ok
         THEN [raised |-> FALSE, type |-> JsonLoads(data.value).type,
               value |-> JsonLoads(data.value).value]
         ELSE [raised |-> TRUE, type |-> "JSONDecodeError", value |-> ""]
    ELSE [raised |-> FALSE, type |-> data.type, value |-> data.value]

\* AlmaResponse.text
TextAccessor(data) ==
    IF data.type = "dict"
    THEN [raised |-> FALSE, type |-> "str", value |-> JsonDumps(data)]
    ELSE [raised |-> FALSE, type |-> data.type, value |-> data.value]

NoRead == [state |-> "none", ctype |-> "", body |-> "",
           data |-> [type |-> "none", value |-> ""],
           raised |-> FALSE, type |-> "none", value |-> ""]

\* AlmaResponse(data=self._parse_response(response), ...)
BuildResponse(ctype, body) ==
    /\ read' = [state |-> "built", ctype |-> ctype, body |-> body,
                data |-> ParseBody(ctype, body),
                raised |-> FALSE, type |-> "none", value |-> ""]
    /\ UNCHANGED <<os_env, environment, api_key, base_url, default_headers,
                   prepared, os_rest, built, aux_vars>>
    /\ UNCHANGED <<gw_vars, cfg_vars, last>>

\* the caller reads the response through json() or through text()
ReadResponse(accessor) ==
    /\ read.state # "none"
    /\ LET r == IF accessor = "json" THEN JsonAccessor(read.data)
                                     ELSE TextAccessor(read.data)
       IN  read' = [read EXCEPT !.state = accessor, !.raised = r.raised,
                                !.type = r.type, !.value = r.value]
    /\ UNCHANGED <<os_env, environment, api_key, base_url, default_headers,
                   prepared, os_rest, built, aux_vars>>
    /\ UNCHANGED <<gw_vars, cfg_vars, last>>

-----------------------------------------------------------------------------
(* AlmaAPIClient *)

UNSET == "<unset>"          \* os.getenv returns None

\* "not self.api_key": the variable is unset or empty
Falsy(key) == key = UNSET \/ key = ""

ApiHeaders(key) ==
    [authorization |-> <<"apikey ", key>>, accept |-> "application/json",
     content_type |-> "application/json"]

\* the fields of an AlmaAPIClient
ApiState == [environment |-> environment, api_key |-> api_key,
             base_url |-> base_url, default_headers |-> default_headers]

\* AlmaAPIClient._load_configuration on the fields st under the process
\* environment env: the fields it leaves and whether it raised
LoadConfiguration(st, env) ==
    IF st.environment = SANDBOX
    THEN IF Falsy(env.sb)
         THEN [st |-> [st EXCEPT !.api_key = env.sb], raised |-> TRUE]
         ELSE [st |-> [st EXCEPT !.api_key = env.sb, !.base_url = BASE_URL],
               raised |-> FALSE]
    ELSE IF st.environment = PRODUCTION
    THEN IF Falsy(env.prod)
         THEN [st |-> [st EXCEPT !.api_key = env.prod], raised |-> TRUE]
         ELSE [st |-> [st EXCEPT !.api_key = env.prod, !.base_url = BASE_URL],
               raised |-> FALSE]
    ELSE [st |-> st, raised |-> TRUE]

\* AlmaAPIClient._setup_headers
SetupHeaders(st) == [st EXCEPT !.default_headers = ApiHeaders(st.api_key)]

\* mutant: the handler puts the old environment name back and nothing else
RevertNameOnly(st, old_env, env) ==
    [st |-> [st EXCEPT !.environment = old_env], raised |-> TRUE]

\* the except branch of switch_environment: back to old_env, reload, re-raise
Revert(st, old_env, env) ==
    LET r == LoadConfiguration([st EXCEPT !.environment = old_env], env)
    IN  IF r.raised THEN [st |-> r.st, raised |-> TRUE]
        ELSE [st |-> SetupHeaders(r.st), raised |-> TRUE]

\* mutant: the new name is stored as written, without upper()
SwitchToAsWritten(st, name, env) ==
    LET r == LoadConfiguration([st EXCEPT !.environment = name], env)
    IN  IF r.raised THEN Revert(r.st, st.environment, env)
        ELSE [st |-> SetupHeaders(r.st), raised |-> FALSE]

\* AlmaAPIClient.switch_environment on the fields st
SwitchTo(st, name, env) ==
    LET r == LoadConfiguration([st EXCEPT !.environment = Upper(name)], env)
    IN  IF r.raised THEN Revert(r.st, st.environment, env)
        ELSE [st |-> SetupHeaders(r.st), raised |-> FALSE]

\* AlmaAPIClient.__init__ from no fields at all
Construct(name, env) ==
    LET blank == [environment |-> Upper(name), api_key |-> "None",
                  base_url |-> "None", default_headers |-> NoHeaders]
        r == LoadConfiguration(blank, env)
    IN  IF r.raised THEN r ELSE [st |-> SetupHeaders(r.st), raised |-> FALSE]

\* the environment names passed to AlmaAPIClient
ApiEnvNames == {SANDBOX, <<"s","a","n","d","b","o","x">>, PRODUCTION,
                <<"P","r","o","d","u","c","t","i","o","n">>, SB, PROD,
                <<"T","E","S","T">>, <<>>}

\* the values ALMA_SB_API_KEY and ALMA_PROD_API_KEY may have
ProcessEnvs == [sb : {UNSET, "", KEY_SB}, prod : {UNSET, "", KEY_PROD}]

ApiSwitchEnvironment(name) ==
    /\ environment # None
    /\ LET r == SwitchTo(ApiState, name, os_env)
       IN  /\ environment' = r.st.environment
           /\ api_key' = r.st.api_key
           /\ base_url' = r.st.base_url
           /\ default_headers' = r.st.default_headers
           /\ last' = [op |-> "switch_environment", arg |-> name,
                       raised |-> r.raised,
                       before |-> [environment |-> environment,
                                   headers |-> default_headers,
                                   api_key |-> api_key,
                                   base_url |-> base_url]]
    /\ UNCHANGED <<os_env, prepared, ext_vars, aux_vars>>
    /\ UNCHANGED <<gw_vars, cfg_vars>>

\* the content_type arguments passed to _prepare_headers ("None": omitted)
ContentTypes == {"None", "", "application/xml", "application/json",
                 "text/plain"}

\* AlmaAPIClient._prepare_headers: a copy of the default headers, overridden
PrepareHeaders(headers, content_type) ==
    IF content_type \in {"None", ""} THEN headers
    ELSE IF content_type = "application/xml"
         THEN [headers EXCEPT !.content_type = content_type,
                              !.accept = "application/xml"]
         ELSE [headers EXCEPT !.content_type = content_type]

ApiPrepareHeaders(content_type) ==
    /\ environment # None
    /\ prepared' = PrepareHeaders(default_headers, content_type)
    /\ last' = [op |-> "prepare_headers", arg |-> <<content_type>>,
                raised |-> FALSE,
                before |-> [environment |-> environment,
                            headers |-> default_headers,
                            api_key |-> api_key,
                            base_url |-> base_url]]
    /\ UNCHANGED <<os_env, environment, api_key, base_url, default_headers,
                   ext_vars, aux_vars>>
    /\ UNCHANGED <<gw_vars, cfg_vars>>

-----------------------------------------------------------------------------
(* AlmaAPIClient.safe_request *)

NoneValue == [type |-> "NoneType", value |-> "None"]

\* what the HTTP layer does with a request: no response at all, or a response
TransportFailure == [status_code |-> NoStatus, ctype |-> "", body |-> ""]

\* mutant: only a server error makes raise_for_status raise
RaiseForStatusServerOnly(status_code) == 500 <= status_code /\ status_code < 600

\* response.raise_for_status() raises HTTPError
RaiseForStatus(status_code) == 400 <= status_code /\ status_code < 600

\* the exception the try block of safe_request ends with, "none" if it returns
SafeRaises(m, outcome) ==
    IF Upper(m) \notin {GET, POST, PUT, DELETE} THEN "ValueError"
    ELSE IF outcome = TransportFailure THEN "ConnectionError"
    ELSE IF RaiseForStatus(outcome.status_code) THEN "HTTPError"
    ELSE "none"

\* except requests.exceptions.RequestException / except Exception
SafeCaught(exception) ==
    exception \in {"ConnectionError", "HTTPError"} \/ exception \in {"ValueError"}

\* try: return response.json()  except: return response.text
SafeBody(body) ==
    IF JsonLoads(body).ok
    THEN [type |-> JsonLoads(body).type, value |-> JsonLoads(body).value]
    ELSE [type |-> "str", value |-> body]

NoSafe == [op |-> "none", method |-> NoMethod, outcome |-> TransportFailure,
           raised |-> FALSE, ret |-> NoneValue]

\* safe_request(m, endpoint) when the HTTP layer answers with outcome
SafeRequest(m, outcome) ==
    /\ environment # None
    /\ LET e == SafeRaises(m, outcome)
       IN  safe' = [op |-> "safe_request", method |-> m, outcome |-> outcome,
                    raised |-> e # "none" /\ ~SafeCaught(e),
                    ret |-> IF e = "none" THEN SafeBody(outcome.body)
                                         ELSE NoneValue]
    /\ UNCHANGED <<os_env, environment, api_key, base_url, default_headers,
                   prepared, ext_vars, report, inv, adm, marc>>
    /\ UNCHANGED <<gw_vars, cfg_vars, last>>

-----------------------------------------------------------------------------
(* AutomatedInvoiceProcessor: process_single_invoice, process_all_invoices *)

NoCeiling == -1             \* max_errors_before_stop is None

\* what acq.get_invoice does: it raises, or returns an invoice
Unasked     == [asked |-> FALSE, ok |-> FALSE, status |-> "", payment |-> ""]
GetOutcomes ==
    {[asked |-> TRUE, ok |-> FALSE, status |-> "", payment |-> ""]} \cup
    [asked : {TRUE}, ok : {TRUE}, status : {"ACTIVE", "CLOSED"},
     payment : {"NOT_PAID", "FULLY_PAID"}]

\* mutant: only the invoice status is looked at
AlreadyClosedByStatus(status, payment) ==
    status \in {"CLOSED", "PAID", "CANCELLED"} /\ payment = payment

\* initial_status in closed_statuses or
\* initial_payment_status in closed_payment_statuses
AlreadyClosed(status, payment) ==
    \/ status \in {"CLOSED", "PAID", "CANCELLED"}
    \/ payment \in {"PAID", "FULLY_PAID"}

\* what the Alma API does for one invoice: the answer to the first
\* get_invoice, to mark_invoice_paid ("ok", "raise") and to the second
\* get_invoice; a call that is never made has no answer ("unasked", Unasked)
Worlds ==
    {w \in [fetch : GetOutcomes, pay : {"ok", "raise", "unasked"},
            verify : GetOutcomes \cup {Unasked}] :
        /\ (~w.fetch.ok \/ AlreadyClosed(w.fetch.status, w.fetch.payment))
              => (w.pay = "unasked" /\ w.verify = Unasked)
        /\ (w.fetch.ok /\ ~AlreadyClosed(w.fetch.status, w.fetch.payment))
              => w.pay # "unasked"
        /\ (w.pay = "raise") => w.verify = Unasked
        /\ (w.pay = "ok") => w.verify # Unasked}

NewResult(invoice_id) ==
    [invoice_id |-> invoice_id,
     initial_status |-> "Unknown", initial_payment_status |-> "Unknown",
     final_status |-> "Unknown", final_payment_status |-> "Unknown",
     operation_success |-> FALSE, status_changed |-> FALSE,
     payment_status_changed |-> FALSE, skipped |-> FALSE,
     skip_reason |-> "None", error_message |-> "None",
     raised |-> FALSE, calls |-> <<>>]

\* the except branch: the exception is recorded and the result returned
Failed(res, calls, message) ==
    [res EXCEPT !.error_message = message, !.calls = calls]

\* process_single_invoice(invoice_id) when the API behaves as w; calls is
\* history: the calls made on self.acq, in their order
ProcessSingleInvoice(invoice_id, w) ==
    LET get == "get_invoice"
        pay == "mark_invoice_paid"
        r1  == [NewResult(invoice_id) EXCEPT
                   !.initial_status = w.fetch.status,
                   !.initial_payment_status = w.fetch.payment,
                   !.calls = <<get>>]
        r2  == [r1 EXCEPT !.operation_success = TRUE]
    IN  IF ~w.fetch.ok
        THEN Failed(NewResult(invoice_id), <<get>>, "get_invoice raised")
        ELSE IF AlreadyClosed(r1.initial_status, r1.initial_payment_status)
        THEN [r1 EXCEPT !.skipped = TRUE, !.skip_reason = "Already closed",
                        !.final_status = r1.initial_status,
                        !.final_payment_status = r1.initial_payment_status,
                        !.operation_success = TRUE]
        ELSE IF w.pay = "raise"
        THEN Failed(r1, <<get, pay>>, "mark_invoice_paid raised")
        ELSE IF ~w.verify.ok
        THEN Failed(r2, <<get, pay, get>>, "get_invoice raised")
        ELSE [r2 EXCEPT
                 !.final_status = w.verify.status,
                 !.final_payment_status = w.verify.payment,
                 !.status_changed = (r1.initial_status # w.verify.status),
                 !.payment_status_changed =
                     (r1.initial_payment_status # w.verify.payment),
                 !.calls = <<get, pay, get>>]

\* mutant: the run stops only once the ceiling is exceeded
ShouldStopLate(max_errors, error_count) ==
    max_errors # NoCeiling /\ max_errors # 0 /\ error_count > max_errors

\* max_errors and error_count >= max_errors
ShouldStop(max_errors, error_count) ==
    max_errors # NoCeiling /\ max_errors # 0 /\ error_count >= max_errors

NoInv == [state |-> "none", ids |-> <<>>, max_errors |-> NoCeiling,
          results |-> <<>>, worlds |-> <<>>, successful_count |-> 0,
          skipped_count |-> 0, error_count |-> 0]

\* process_all_invoices(invoice_ids) is called; with no ID it returns at once
ProcessAllInvoices(invoice_ids, max_errors) ==
    /\ inv.state = "none"
    /\ inv' = [NoInv EXCEPT !.state = IF invoice_ids = <<>> THEN "done"
                                                           ELSE "running",
                            !.ids = invoice_ids, !.max_errors = max_errors]
    /\ UNCHANGED <<os_env, environment, api_key, base_url, default_headers,
                   prepared, ext_vars, report, safe, adm, marc>>
    /\ UNCHANGED <<gw_vars, cfg_vars, last>>

\* one pass of the loop of process_all_invoices; worlds is history
ProcessNextInvoice ==
    /\ inv.state = "running"
    /\ \E w \in Worlds :
          LET i      == Len(inv.results) + 1
              res == ProcessSingleInvoice(inv.ids[i], w)
              errors == IF res.operation_success THEN inv.error_count
                                                    ELSE inv.error_count + 1
              break  == /\ ~res.operation_success
                        /\ ShouldStop(inv.max_errors, errors)
          IN  inv' = [inv EXCEPT
                        !.results = Append(inv.results, res),
                        !.worlds = Append(inv.worlds, w),
                        !.successful_count =
                            IF res.operation_success /\ ~res.skipped
                            THEN @ + 1 ELSE @,
                        !.skipped_count =
                            IF res.operation_success /\ res.skipped
                            THEN @ + 1 ELSE @,
                        !.error_count = errors,
                        !.state = IF break \/ i = Len(inv.ids) THEN "done"
                                                               ELSE "running"]
    /\ UNCHANGED <<os_env, environment, api_key, base_url, default_headers,
                   prepared, ext_vars, report, safe, adm, marc>>
    /\ UNCHANGED <<gw_vars, cfg_vars, last>>

-----------------------------------------------------------------------------
(* Admin: get_set_members *)

PAGE_STEP  == 100           \* range(0, total_members, 100)
PAGE_LIMIT == 100           \* _get_set_members_page(..., limit: int = 100)

\* what _get_set_info does: raise_for_status raises, or the set is described
InfoFails    == [ok |-> FALSE, content |-> "", number_of_members |-> 0]
InfoOutcomes ==
    {InfoFails} \cup
    [ok : {TRUE}, content : {"BIB_MMS", "ITEM", ""},
     number_of_members : 0 .. MaxMembers]

\* a member's link: the text before and after "/bibs/"; a link without
\* "/bibs/" is its own last piece, and NoLink is the empty link
NoId   == [offset |-> -1, n |-> 0]
NoLink == [bibs |-> FALSE, tail |-> NoId]
Member(offset, n) ==
    [link |-> [bibs |-> TRUE, tail |-> [offset |-> offset, n |-> n]]]

\* what _get_set_members_page(set_id, offset) does: raise_for_status
\* raises, or the page holds a list of members or one member as a dict
PageOutcomes(offset) ==
    {[ok |-> FALSE, kind |-> "list", member |-> <<>>],
     [ok |-> TRUE, kind |-> "list", member |-> <<>>],
     [ok |-> TRUE, kind |-> "list",
      member |-> <<Member(offset, 1), [link |-> NoLink], Member(offset, 2)>>],
     [ok |-> TRUE, kind |-> "dict", member |-> <<Member(offset, 1)>>]}

\* _extract_mms_ids_from_members: link.split("/bibs/")[-1] of every member
\* with a link, when it is not empty
RECURSIVE ExtractMmsIds(_)
ExtractMmsIds(members) ==
    IF members = <<>> THEN <<>>
    ELSE LET link == Head(members).link
             rest == ExtractMmsIds(Tail(members))
         IN  IF link # NoLink /\ link.tail # NoId
             THEN <<link.tail>> \o rest
             ELSE rest

\* mutant: the range runs up to and including the total
InRangeInclusive(offset, total_members) == offset <= total_members

\* range(0, total_members, 100) still has the offset
InRange(offset, total_members) == offset < total_members

NoAdm == [state |-> "none", set_id |-> "", info |-> InfoFails,
          requests |-> <<>>, all_mms_ids |-> <<>>, pages |-> <<>>,
          raised |-> "None"]

\* get_set_members(set_id) up to the first page request; requests is
\* history: the requests sent through self.client, in their order
GetSetMembers(set_id, info) ==
    /\ adm.state = "none"
    /\ LET called == [NoAdm EXCEPT !.set_id = set_id]
            asked  == [called EXCEPT
                          !.info = info,
                          !.requests = <<[what |-> "set", limit |-> 0,
                                          offset |-> 0]>>]
        IN  adm' =
              IF set_id = ""
              THEN [called EXCEPT !.state = "raised", !.raised = "ValueError"]
              ELSE IF ~info.ok
              THEN [asked EXCEPT !.state = "raised", !.raised = "HTTPError"]
              ELSE IF info.content # "BIB_MMS"
              THEN [asked EXCEPT !.state = "raised", !.raised = "ValueError"]
              ELSE IF info.number_of_members = 0
              THEN [asked EXCEPT !.state = "returned"]
              ELSE IF InRange(0, info.number_of_members)
              THEN [asked EXCEPT !.state = "running"]
              ELSE [asked EXCEPT !.state = "returned"]
    /\ UNCHANGED <<os_env, environment, api_key, base_url, default_headers,
                   prepared, ext_vars, report, safe, inv, marc>>
    /\ UNCHANGED <<gw_vars, cfg_vars, last>>

\* one pass of the loop of get_set_members; pages is history: the answers
GetSetMembersPage ==
    /\ adm.state = "running"
    /\ LET offset == PAGE_STEP * Len(adm.pages)
        IN  \E page \in PageOutcomes(offset) :
              LET sent_  == Append(adm.requests,
                                   [what |-> "members", limit |-> PAGE_LIMIT,
                                    offset |-> offset])
                  ids    == adm.all_mms_ids \o ExtractMmsIds(page.member)
                  more   == InRange(offset + PAGE_STEP,
                                    adm.info.number_of_members)
              IN  adm' =
                    IF ~page.ok
                    THEN [adm EXCEPT !.requests = sent_,
                                     !.pages = Append(adm.pages, page),
                                     !.state = "raised",
                                     !.raised = "HTTPError"]
                    ELSE [adm EXCEPT !.requests = sent_,
                                     !.pages = Append(adm.pages, page),
                                     !.all_mms_ids = ids,
                                     !.state = IF more THEN "running"
                                                       ELSE "returned"]
    /\ UNCHANGED <<os_env, environment, api_key, base_url, default_headers,
                   prepared, ext_vars, report, safe, inv, marc>>
    /\ UNCHANGED <<gw_vars, cfg_vars, last>>

-----------------------------------------------------------------------------
(* BibliographicRecords: _build_updated_marc_xml *)

\* text is a sequence of characters; the XML entity that stands for one
Entity(c) ==
    CASE c = "&"  -> <<"&", "a", "m", "p", ";">>
      [] c = "<"  -> <<"&", "l", "t", ";">>
      [] c = ">"  -> <<"&", "g", "t", ";">>
      [] c = "\"" -> <<"&", "q", "u", "o", "t", ";">>
      [] c = "'"  -> <<"&", "a", "p", "o", "s", ";">>

\* text.replace(c, entity of c)
RECURSIVE Replace(_, _)
Replace(text, c) ==
    IF text = <<>> THEN <<>>
    ELSE (IF Head(text) = c THEN Entity(c) ELSE <<Head(text)>>)
             \o Replace(Tail(text), c)

\* mutant: the text is left to the serialiser
SanitizeXmlTextVerbatim(text) == SelectSeq(text, LAMBDA c : TRUE)

\* _sanitize_xml_text: control characters ("^G") removed, the five special
\* characters replaced by entities, surrounding whitespace stripped
SanitizeXmlText(text) ==
    LET RECURSIVE LStrip(_)
        LStrip(t) == IF t # <<>> /\ Head(t) = " " THEN LStrip(Tail(t)) ELSE t
        RECURSIVE RStrip(_)
        RStrip(t) == IF t # <<>> /\ t[Len(t)] = " "
                     THEN RStrip(SubSeq(t, 1, Len(t) - 1)) ELSE t
        kept == SelectSeq(text, LAMBDA c : c # "^G")
    IN  IF text = <<>> THEN <<>>
        ELSE RStrip(LStrip(
                 Replace(Replace(Replace(Replace(Replace(kept,
                     "&"), "<"), ">"), "\""), "'")))

\* ET.tostring on the text of an element: & < > become entities
EscapeCdata(text) == Replace(Replace(Replace(text, "&"), "<"), ">")

\* what an XML parser reads from serialised text: the entities decoded
RECURSIVE Unescape(_)
Unescape(text) ==
    LET Specials == {"&", "<", ">", "\"", "'"}
        StartsWith(c) == /\ Len(text) >= Len(Entity(c))
                         /\ SubSeq(text, 1, Len(Entity(c))) = Entity(c)
    IN  IF text = <<>> THEN <<>>
        ELSE IF \E c \in Specials : StartsWith(c)
        THEN LET c == CHOOSE x \in Specials : StartsWith(x)
             IN  <<c>> \o Unescape(SubSeq(text, Len(Entity(c)) + 1, Len(text)))
        ELSE <<Head(text)>> \o Unescape(Tail(text))

\* the children of a MARC record element
Leader(text) ==
    [kind |-> "leader", tag |-> "", ind1 |-> "", ind2 |-> "",
     subfields |-> <<>>, text |-> text]
Controlfield(tag, text) ==
    [kind |-> "controlfield", tag |-> tag, ind1 |-> "", ind2 |-> "",
     subfields |-> <<>>, text |-> text]
Datafield(tag, ind1, ind2, subfields) ==
    [kind |-> "datafield", tag |-> tag, ind1 |-> ind1, ind2 |-> ind2,
     subfields |-> subfields, text |-> <<>>]
Subfield(code, text) == [code |-> code, text |-> text]

\* _add_datafield: the new data field, its values sanitised
AddDatafield(tag, subfields, ind1, ind2) ==
    Datafield(tag, ind1, ind2,
              [i \in DOMAIN subfields |->
                  Subfield(subfields[i].code,
                           SanitizeXmlText(subfields[i].text))])

\* the loop over root.findall('datafield'), field_added carried along
RECURSIVE CopyDatafields(_, _, _, _, _, _)
CopyDatafields(dfs, field, subfields, ind1, ind2, field_added) ==
    IF dfs = <<>>
    THEN IF field_added THEN <<>>
         ELSE <<AddDatafield(field, subfields, ind1, ind2)>>
    ELSE LET df == Head(dfs)
         IN  IF df.tag = field
             THEN (IF field_added THEN <<>>
                   ELSE <<AddDatafield(field, subfields, ind1, ind2)>>)
                  \o CopyDatafields(Tail(dfs), field, subfields, ind1, ind2,
                                    TRUE)
             ELSE <<Datafield(df.tag, df.ind1, df.ind2, df.subfields)>>
                  \o CopyDatafields(Tail(dfs), field, subfields, ind1, ind2,
                                    field_added)

\* ET.tostring: every text of the tree is escaped
ElementToString(children) ==
    [i \in DOMAIN children |->
        [children[i] EXCEPT
            !.text = EscapeCdata(@),
            !.subfields = [j \in DOMAIN @ |->
                              Subfield(@[j].code, EscapeCdata(@[j].text))]]]

\* the record a reader of the XML gets
ParseXml(xml) ==
    [i \in DOMAIN xml |->
        [xml[i] EXCEPT
            !.text = Unescape(@),
            !.subfields = [j \in DOMAIN @ |->
                              Subfield(@[j].code, Unescape(@[j].text))]]]

\* _build_updated_marc_xml(root, field, subfields, ind1, ind2): the children
\* of the record element of the returned XML
BuildUpdatedMarcXml(root, field, subfields, ind1, ind2) ==
    LET leaders == SelectSeq(root, LAMBDA e : e.kind = "leader")
        leader  == IF leaders = <<>> THEN <<>>
                   ELSE <<Leader(Head(leaders).text)>>
        found   == SelectSeq(root, LAMBDA e : e.kind = "controlfield")
        cfs     == [i \in DOMAIN found |->
                       Controlfield(found[i].tag, found[i].text)]
        dfs     == SelectSeq(root, LAMBDA e : e.kind = "datafield")
    IN  ElementToString(
            leader \o cfs
                \o CopyDatafields(dfs, field, subfields, ind1, ind2, FALSE))

\* the MARC records given: a leader, control fields and data fields in the
\* order of the MARCXML schema
MarcRecords ==
    LET x    == <<"x">>
        dfs  == {Datafield("245", "1", "0", <<Subfield("a", <<"R", "&", "D">>)>>),
                 Datafield("594", " ", " ", <<Subfield("a", x)>>),
                 Datafield("594", "1", " ", <<Subfield("b", x)>>),
                 Datafield("650", " ", "0",
                           <<Subfield("a", x), Subfield("x", <<>>)>>)}
        cf1  == Controlfield("001", <<"9", "9">>)
    IN  {l \o c \o d :
            l \in {<<>>, <<Leader(<<"0", "c", "a", "m">>)>>},
            c \in {<<>>, <<cf1>>, <<cf1, Controlfield("008", x)>>},
            d \in UNION {[1 .. n -> dfs] : n \in 0 .. MaxDatafields}}

\* the subfields update_marc_field passes on: a non-empty dict, in
\* insertion order
MarcSubfields ==
    {<<Subfield("a", <<"x">>)>>,
     <<Subfield("a", <<"R", "&", "D">>)>>,
     <<Subfield("a", <<" ", "x">>), Subfield("b", <<"x">>)>>}

NoMarc == [op |-> "none", root |-> <<>>, field |-> "", subfields |-> <<>>,
           ind1 |-> "", ind2 |-> "", xml |-> <<>>]

\* update_marc_field builds the updated XML of a record (one call is looked at)
UpdateMarcField(root, field, subfields, ind1, ind2) ==
    /\ marc.op = "none"
    /\ marc' = [op |-> "built", root |-> root, field |-> field,
                subfields |-> subfields, ind1 |-> ind1, ind2 |-> ind2,
                xml |-> BuildUpdatedMarcXml(root, field, subfields, ind1,
                                            ind2)]
    /\ UNCHANGED <<os_env, environment, api_key, base_url, default_headers,
                   prepared, ext_vars, report, safe, inv, adm>>
    /\ UNCHANGED <<gw_vars, cfg_vars, last>>

-----------------------------------------------------------------------------
(* Construction: ConfigManager.__init__ and AlmaAPIClient.__init__ *)

REQUIRED_ENV_VARS ==
    <<"ALMA_SB_API_KEY", "ALMA_PROD_API_KEY", "AWS_ACCESS_KEY", "AWS_SECRET",
      "ALMA_SB_BUCKET_NAME", "ALMA_PROD_BUCKET_NAME">>

RequiredNames == {REQUIRED_ENV_VARS[i] : i \in DOMAIN REQUIRED_ENV_VARS}

\* the required names other than the two API keys
OtherRequired == RequiredNames \ {"ALMA_SB_API_KEY", "ALMA_PROD_API_KEY"}

\* the required names that are keys of os.environ (an empty value is a key)
Environ(env, rest) ==
    rest \cup (IF env.sb = UNSET THEN {} ELSE {"ALMA_SB_API_KEY"})
         \cup (IF env.prod = UNSET THEN {} ELSE {"ALMA_PROD_API_KEY"})

\* self.env = env or os.environ; env is the set of keys of the mapping passed,
\* empty for None and for an empty mapping alike
ConfigManagerEnv(env, environ) == IF env = {} THEN environ ELSE env

\* mutant: only the first missing name is reported
MissingVarsFirst(names) ==
    LET all == SelectSeq(REQUIRED_ENV_VARS, LAMBDA var : var \notin names)
    IN  IF all = <<>> THEN <<>> ELSE <<all[1]>>

\* [var for var in self.REQUIRED_ENV_VARS if var not in self.env]
MissingVars(names) == SelectSeq(REQUIRED_ENV_VARS, LAMBDA var : var \notin names)

\* ConfigManager.load_env_variables on the names of self.env
LoadEnvVariables(names) ==
    [raised |-> MissingVars(names) # <<>>, missing |-> MissingVars(names)]

\* the env arguments passed to ConfigManager
EnvArgs == {{}, RequiredNames, {"ALMA_SB_API_KEY", "ALMA_PROD_API_KEY"}}

NoBuilt == [cls |-> "none", env_arg |-> {}, name |-> None, raised |-> FALSE,
            error |-> "none", missing |-> <<>>, instance |-> "none"]

\* ConfigManager(env): a constructor that raises hands no object to its caller
ConfigManagerInit(env) ==
    /\ LET r == LoadEnvVariables(ConfigManagerEnv(env, Environ(os_env, os_rest)))
       IN  built' = [cls |-> "ConfigManager", env_arg |-> env, name |-> None,
                     raised |-> r.raised,
                     error |-> IF r.raised THEN "EnvironmentError" ELSE "none",
                     missing |-> r.missing,
                     instance |-> IF r.raised THEN "none" ELSE "ConfigManager"]
    /\ UNCHANGED <<os_env, environment, api_key, base_url, default_headers,
                   prepared, os_rest, read, aux_vars>>
    /\ UNCHANGED <<gw_vars, cfg_vars, last>>

\* client = AlmaAPIClient(name): the caller's variable is bound to the new
\* object unless the constructor raises
AlmaAPIClientInit(name) ==
    /\ LET r == Construct(name, os_env)
       IN  /\ built' = [cls |-> "AlmaAPIClient", env_arg |-> {}, name |-> name,
                        raised |-> r.raised,
                        error |-> IF r.raised THEN "ValueError" ELSE "none",
                        missing |-> <<>>,
                        instance |-> IF r.raised THEN "none" ELSE "AlmaAPIClient"]
           /\ IF r.raised
              THEN UNCHANGED <<environment, api_key, base_url, default_headers>>
              ELSE /\ environment' = r.st.environment
                   /\ api_key' = r.st.api_key
                   /\ base_url' = r.st.base_url
                   /\ default_headers' = r.st.default_headers
    /\ UNCHANGED <<os_env, prepared, os_rest, read, aux_vars>>
    /\ UNCHANGED <<gw_vars, cfg_vars, last>>



\* no status asked, no safe_request, no invoice run, no set read, no record built
InitAux ==
    /\ report = NoReport
    /\ safe = NoSafe
    /\ inv = NoInv
    /\ adm = NoAdm
    /\ marc = NoMarc

\* nothing constructed, prepared or read yet; every other required name set
InitExt ==
    /\ os_rest = OtherRequired
    /\ built = NoBuilt
    /\ read = NoRead
    /\ InitAux

\* an AlmaAPIClient that some AlmaAPIClient(name) call has constructed
InitAPI ==
    /\ os_env \in ProcessEnvs
    /\ \E name \in ApiEnvNames :
          LET r == Construct(name, os_env)
          IN  /\ ~r.raised
              /\ environment = r.st.environment
              /\ api_key = r.st.api_key
              /\ base_url = r.st.base_url
              /\ default_headers = r.st.default_headers
    /\ prepared = NoHeaders
    /\ InitExt
    /\ last = NoOp

-----------------------------------------------------------------------------
(* The gateway: one BaseAPIClient and its caller *)

InitGateway ==
    /\ now = 0
    /\ request_times = <<>>
    /\ rate_limit = DEFAULT_RATE_LIMIT
    /\ pc = "idle"
    /\ caller = "user"
    /\ method = NoMethod
    /\ retry_count = 0
    /\ result = NoResult
    /\ sent = <<>>
    /\ attempts = 0
    /\ delays = <<>>
    /\ slept = 0
    /\ since = 0
    /\ passes = 0
    /\ seen = <<>>
    /\ last_response = NoResponse
    /\ stamps = 0

\* ConfigManager.__init__ with every required variable present; no AlmaClient yet
InitConfig ==
    /\ current_environment = None
    /\ cm_headers = NoHeaders
    /\ bc_headers = NoHeaders
    /\ bc_base_url = "None"
    /\ client = "none"
    /\ bc_prepared = NoPrepared
    /\ sw = NoSwitch

\* no AlmaAPIClient
InitNoAPI ==
    /\ os_env = [sb |-> KEY_SB, prod |-> KEY_PROD]
    /\ environment = None
    /\ api_key = "None"
    /\ base_url = "None"
    /\ default_headers = NoHeaders
    /\ prepared = NoHeaders
    /\ InitExt
    /\ last = NoOp

Init == InitGateway /\ InitConfig /\ InitNoAPI

\* the request executor under every method and every response
Next ==
    \/ \E m \in Methods : Call(m)
    \/ \E q \in {"", "title~x"},
          limit \in {10, MAX_SEARCH_LIMIT, MAX_SEARCH_LIMIT + 1} :
            SearchRecords(q, limit)
    \/ EnforceRateLimit
    \/ Attempt(Responses)

Spec == Init /\ [][Next]_vars

\* every status the server may answer with, on one kind of body
StatusResponses ==
    {r \in Responses : r.ctype = "application/json" /\ r.body = "{obj}"}

NextFair ==
    \/ \E m \in Methods : Call(m)
    \/ EnforceRateLimit
    \/ Attempt(StatusResponses)

\* the request executor when every HTTP attempt and every sleep completes
SpecFair ==
    /\ Init
    /\ [][NextFair]_vars
    /\ WF_vars(EnforceRateLimit)
    /\ WF_vars(Attempt(StatusResponses))

\* the responses served while the rate limiter is exercised
LimiterResponses ==
    {r \in Responses : r.status_code \in {200, 503} /\ r.ctype = "application/json"
                                                    /\ r.body = "{obj}"}

\* the rate limiter: GET calls, idle time and changes of the limit
NextLimiter ==
    \/ Call(GET)
    \/ EnforceRateLimit
    \/ Attempt(LimiterResponses)
    \/ Tick
    \/ \E n \in -1 .. MaxLimit : SetRateLimit(n)

SpecLimiter == Init /\ [][NextLimiter]_vars

\* GET calls, idle time, changes of the limit and questions about its status
NextStatus ==
    \/ Call(GET)
    \/ EnforceRateLimit
    \/ Attempt({r \in LimiterResponses : r.status_code = 200})
    \/ Tick
    \/ \E n \in 1 .. MaxLimit : SetRateLimit(n)
    \/ GetRateLimitStatus

SpecStatus == Init /\ [][NextStatus]_vars

\* the responses served to a connection test
TestResponses ==
    {r \in Responses : r.status_code \in {200, 304, 401, 503}
                          /\ r.ctype = "application/json" /\ r.body = "{obj}"}

\* a ConfigManager and the AlmaClient built on it
NextClient ==
    \/ \E name \in EnvNames : SetEnvironment(name)
    \/ \E name \in EnvNames : AlmaClientInit(name)
    \/ AlmaClientReady
    \/ \E name \in EnvNames : SwitchEnvironment(name)
    \/ SwitchEnvironmentReturn
    \/ EnforceRateLimit
    \/ Attempt(TestResponses)
    \/ \E content_type \in ContentArgs, accept \in AcceptArgs :
          ClientPrepareHeaders(content_type, accept)

SpecClient == Init /\ [][NextClient]_vars

\* an AlmaAPIClient and its caller
NextAPIClient ==
    \/ \E name \in ApiEnvNames : ApiSwitchEnvironment(name)
    \/ \E content_type \in ContentTypes : ApiPrepareHeaders(content_type)

InitAPIClient == InitGateway /\ InitConfig /\ InitAPI

\* the constructors under every process environment
NextConstruct ==
    \/ \E env \in EnvArgs : ConfigManagerInit(env)
    \/ \E name \in ApiEnvNames : AlmaAPIClientInit(name)

InitConstruct ==
    /\ InitGateway
    /\ InitConfig
    /\ os_env \in ProcessEnvs
    /\ os_rest \in SUBSET OtherRequired
    /\ environment = None
    /\ api_key = "None"
    /\ base_url = "None"
    /\ default_headers = NoHeaders
    /\ prepared = NoHeaders
    /\ built = NoBuilt
    /\ read = NoRead
    /\ InitAux
    /\ last = NoOp

SpecConstruct == InitConstruct /\ [][NextConstruct]_vars

\* responses of every content type and body, built and read back
NextResponse ==
    \/ \E ctype \in ResponseTypes, body \in ResponseBodies :
          BuildResponse(ctype, body)
    \/ \E accessor \in {"json", "text"} : ReadResponse(accessor)

SpecResponse == Init /\ [][NextResponse]_vars

SpecAPIClient == InitAPIClient /\ [][NextAPIClient]_vars

\* safe_request under every method and every outcome of the HTTP layer
NextSafe ==
    \E m \in Methods,
       outcome \in {TransportFailure} \cup
                   [status_code : Statuses, ctype : {"application/json"},
                    body : ResponseBodies] :
        SafeRequest(m, outcome)

SpecSafe == InitAPIClient /\ [][NextSafe]_vars

\* runs of the bulk invoice processor under every behaviour of the API
NextInvoices ==
    \/ \E n \in 0 .. MaxInvoices, max_errors \in {NoCeiling} \cup (0 .. MaxCeiling) :
          ProcessAllInvoices(
              SubSeq(<<"inv-1", "inv-2", "inv-3", "inv-4", "inv-5">>, 1, n),
              max_errors)
    \/ ProcessNextInvoice

SpecInvoices == Init /\ [][NextInvoices]_vars

\* calls of Admin.get_set_members under every behaviour of the API; the
\* loop of a call that has begun goes on running
NextSets ==
    \/ \E set_id \in {"", "25793308630004146"}, info \in InfoOutcomes :
          GetSetMembers(set_id, info)
    \/ GetSetMembersPage

SpecSets == Init /\ [][NextSets]_vars /\ WF_vars(GetSetMembersPage)

\* updates of one MARC field over every record and argument of the model
NextMarc ==
    \E root \in MarcRecords, field \in {"594", "700"},
       subfields \in MarcSubfields, ind1 \in {" ", "1"} :
        UpdateMarcField(root, field, subfields, ind1, " ")

SpecMarc == Init /\ [][NextMarc]_vars

-----------------------------------------------------------------------------
(* Properties of the request executor and the rate limiter *)

\* the sends made under the limit now in force
SentUnderLimit == (since + 1) .. Len(sent)

\* C1: under a fixed rate limit L no rolling 60-second interval contains more
\* than L HTTP requests sent by the instance (the interval starting at each
\* send is examined; sends made before the limit was last changed are left out).
C1_RateCapRespected ==
    \A i \in SentUnderLimit :
        Cardinality({j \in SentUnderLimit :
                        sent[i] <= sent[j] /\ sent[j] < sent[i] + WINDOW})
            <= rate_limit

\* C2: a call entering the limiter with at least rate_limit timestamps inside
\* the trailing 60 seconds sleeps 60 - (now - oldest of them), which is until
\* the oldest has left the window; with fewer it is not delayed at all.
C2_LimiterDelay ==
    [][(pc = "enforce" /\ pc' = "request") =>
        LET inWindow == {i \in DOMAIN request_times :
                            now - request_times[i] < WINDOW}
            oldest == CHOOSE t \in {request_times[i] : i \in inWindow} :
                         \A i \in inWindow : t <= request_times[i]
        IN  IF Cardinality(inWindow) >= rate_limit
            THEN /\ now' - now = WINDOW - (now - oldest)
                 /\ now' - now > 0
                 /\ ~(now' - oldest < WINDOW)
            ELSE now' = now]_vars

\* a call was delayed by the limiter: the limit is 2, two requests were
\* recorded inside the window, and the third call slept
C2_Witness ==
    /\ pc = "request"
    /\ rate_limit = 2
    /\ Len(request_times) = 3
    /\ slept > 0

AllRetryable(statuses) == \A i \in DOMAIN statuses : statuses[i] \in {429, 500, 502, 503, 504}

\* C3: a logical call whose every attempt receives a retryable status makes
\* exactly 4 attempts, waits 1, 2 and 4 seconds before the first, second and
\* third retry, then raises the error of the last status; no logical call
\* makes a fifth attempt.
C3_RetryBudget ==
    /\ attempts <= 4
    /\ Len(seen) <= 4
    /\ (pc = "idle" /\ seen # <<>> /\ AllRetryable(seen)) =>
          /\ attempts = 4
          /\ Len(seen) = 4
          /\ delays = <<1, 2, 4>>
          /\ \A k \in 1 .. 3 :
                sent[Len(sent) - 4 + k + 1] - sent[Len(sent) - 4 + k] >= delays[k]
          /\ IsError(result)
          /\ result.status_code = seen[4]

\* four attempts, each with another retryable status, ended in the error of
\* the last one
C3_Witness ==
    /\ pc = "idle"
    /\ seen = <<429, 500, 502, 503>>
    /\ result.kind = "AlmaAPIError"
    /\ result.status_code = 503

\* what _parse_response makes of a response, written out
ParsedBody(r) ==
    IF r.ctype = "application/json" /\ r.body = "{obj}"
    THEN [type |-> "json", value |-> r.body]
    ELSE [type |-> "text", value |-> r.body]

\* C4: when a retried call receives a 2xx status, it returns the Response
\* built from that attempt, raises nothing and makes no further attempt (the
\* 2xx status is the last one the call receives).
C4_RetryThenSuccess ==
    /\ \A i \in DOMAIN seen :
          (200 <= seen[i] /\ seen[i] < 300) => (i = Len(seen) /\ pc = "idle")
    /\ (/\ pc = "idle"
        /\ Len(seen) > 1
        /\ 200 <= seen[Len(seen)] /\ seen[Len(seen)] < 300) =>
          /\ result.kind = "AlmaResponse"
          /\ result.success
          /\ result.status_code = seen[Len(seen)]
          /\ result.status_code = last_response.status_code
          /\ result.data = ParsedBody(last_response)
          /\ attempts = Len(seen)
          /\ Len(seen) <= 4

\* a 503 followed by a 200 returned the parsed body of the 200
C4_Witness ==
    /\ pc = "idle"
    /\ seen = <<503, 200>>
    /\ result.kind = "AlmaResponse"
    /\ result.data.type = "json"

\* C5: a response whose status is neither successful (2xx) nor retryable is
\* never retried: it is the only attempt of its logical call, no backoff
\* sleep is made, and the error is surfaced at once.
C5_NonRetryableSurfaced ==
    (/\ seen # <<>>
     /\ seen[1] # NoStatus
     /\ ~(200 <= seen[1] /\ seen[1] < 300)
     /\ seen[1] \notin {429, 500, 502, 503, 504}) =>
        /\ pc = "idle"
        /\ attempts = 1
        /\ Len(seen) = 1
        /\ delays = <<>>
        /\ IsError(result)
        /\ result.status_code = seen[1]

\* C6: every finished logical call either raised an error or returned a
\* Response whose status lies in 200..299 and whose success flag is true.
C6_ResponseImpliesSuccess ==
    (pc = "idle" /\ result.kind # "none") =>
        \/ IsError(result)
        \/ /\ result.kind = "AlmaResponse"
           /\ result.success
           /\ 200 <= result.status_code /\ result.status_code < 300

\* C7: the error raised for a response is chosen by its status alone (401
\* authentication, 429 rate limit, 400 and 422 validation, any other the
\* generic API error) and carries that status and the parsed body; 429 and
\* the 5xx of the retry set surface only after the fourth attempt.
C7_ErrorMapping ==
    (pc = "idle" /\ IsError(result) /\ result.status_code # NoStatus) =>
        LET st == result.status_code
        IN  /\ st = last_response.status_code
            /\ st = seen[Len(seen)]
            /\ result.data = ParsedBody(last_response)
            /\ (st = 401) => result.kind = "AlmaAuthenticationError"
            /\ (st = 429) => result.kind = "AlmaRateLimitError"
            /\ (st \in {400, 422}) => result.kind = "AlmaValidationError"
            /\ (st \notin {401, 429, 400, 422}) => result.kind = "AlmaAPIError"
            /\ (st \in {429, 500, 502, 503, 504}) => attempts = 4

\* a 429 on the fourth attempt was raised as the rate-limit error, a 422 as
\* the validation error
C7_Witness ==
    /\ pc = "idle"
    /\ \/ result.kind = "AlmaRateLimitError" /\ attempts = 4
                                             /\ result.data.type = "json"
       \/ result.kind = "AlmaValidationError" /\ result.status_code = 422

-----------------------------------------------------------------------------
(* Properties of environment switching *)

\* the key the process environment holds for a normalised AlmaAPIClient
\* environment name
ConfiguredKey(env) ==
    IF env = SANDBOX THEN os_env.sb
    ELSE IF env = PRODUCTION THEN os_env.prod
    ELSE UNSET

\* C8: AlmaAPIClient.switch_environment(B) with B unsupported, or with the API
\* key of B unset or empty, raises and leaves environment, API key, default
\* headers and base URL as they were before the call (and whenever it raises,
\* the four are as before).
C8_FailedSwitchRollsBack ==
    (last.op = "switch_environment") =>
        /\ (ConfiguredKey(Upper(last.arg)) \in {UNSET, ""}) => last.raised
        /\ last.raised =>
              /\ environment = last.before.environment
              /\ api_key = last.before.api_key
              /\ default_headers = last.before.headers
              /\ base_url = last.before.base_url

\* a switch from SANDBOX to PRODUCTION, whose key is unset, has raised
C8_Witness ==
    /\ last.op = "switch_environment"
    /\ last.arg = PRODUCTION
    /\ last.raised
    /\ os_env.prod = UNSET
    /\ environment = SANDBOX

\* C9: ConfigManager.set_environment(s) with s normalising to no supported
\* identifier raises and leaves current_environment, get_headers() and
\* get_api_key() as they were before the call.
C9_FailedSetEnvironmentKeepsState ==
    (last.op = "set_environment" /\ Upper(last.arg) \notin {SB, PROD}) =>
        /\ last.raised
        /\ current_environment = last.before.environment
        /\ cm_headers = last.before.headers
        /\ GetApiKey(current_environment) = last.before.api_key

\* C10: AlmaClient.switch_environment is all or nothing: after it returned
\* False the current environment, base_client.headers and
\* base_client.base_url are those from before the call, after it returned
\* True they are those of the new environment.
C10_SwitchAllOrNothing ==
    (sw.state = "returned") =>
        IF sw.ret
        THEN /\ current_environment = Upper(sw.arg)
             /\ bc_headers = ConfigHeaders(GetApiKey(Upper(sw.arg)))
             /\ bc_base_url = BASE_URL
        ELSE /\ current_environment = sw.before.environment
             /\ bc_headers = sw.before.headers
             /\ bc_base_url = sw.before.base_url

\* C11: environment resolution is case-insensitive and takes SB and PROD for
\* SANDBOX and PRODUCTION: every spelling of SANDBOX or SB selects the sandbox
\* key, every spelling of PRODUCTION or PROD the production key, and the
\* authorization header is 'apikey ' followed by the selected key.
C11_AliasesResolve ==
    (last.op = "switch_environment") =>
        /\ (Upper(last.arg) \in {SANDBOX, SB} /\ os_env.sb \notin {UNSET, ""}) =>
              /\ ~last.raised
              /\ api_key = os_env.sb
              /\ default_headers.authorization = <<"apikey ", os_env.sb>>
        /\ (Upper(last.arg) \in {PRODUCTION, PROD}
                /\ os_env.prod \notin {UNSET, ""}) =>
              /\ ~last.raised
              /\ api_key = os_env.prod
              /\ default_headers.authorization = <<"apikey ", os_env.prod>>

\* C15: set_rate_limit(n) with n <= 0 raises an error and leaves the
\* configured limit as it was; so after any sequence of set_rate_limit calls
\* the configured limit is a positive integer.
C15_NonPositiveRejected ==
    /\ [](rate_limit \in Nat \ {0})
    /\ [][\A n \in -1..0 :
            SetRateLimit(n) =>
                /\ result'.kind = "ValueError"
                /\ rate_limit' = rate_limit]_vars

\* set_rate_limit has just rejected a value, after an earlier call changed the limit
C15_Witness ==
    /\ result.kind = "ValueError"
    /\ rate_limit # DEFAULT_RATE_LIMIT

\* the recorded timestamps still inside the trailing window at time t
InWindow(t) == {i \in DOMAIN request_times : t - request_times[i] < WINDOW}

\* C16: once set_rate_limit has lowered the limit to L while more than L
\* timestamps lie in the window, the limiter lets the next request through
\* only when fewer than L of the recorded timestamps remain in the trailing
\* 60 seconds.
C16_LoweredLimitDrains ==
    [][(/\ pc = "enforce"
        /\ pc' = "request"
        /\ since = Len(sent)
        /\ rate_limit < DEFAULT_RATE_LIMIT
        /\ Cardinality(InWindow(now)) > rate_limit)
       => Cardinality(InWindow(now')) < rate_limit]_vars

\* C17: when the limiter delays a call, the timestamp it records for the
\* call is the time after the wait, the time at which the request is sent.
C17_RecordedAfterWait ==
    (pc = "request" /\ slept > 0) =>
        request_times[Len(request_times)] = now

\* C14: a transport failure (no HTTP response) on any attempt of a logical
\* call is not retried: it is the last attempt of the call, no backoff sleep
\* follows it, and the call ends in an error that carries no status code.
C14_TransportFailureEndsCall ==
    \A i \in DOMAIN seen :
        seen[i] = NoStatus =>
            /\ i = Len(seen)
            /\ pc = "idle"
            /\ attempts = Len(seen)
            /\ Len(delays) = Len(seen) - 1
            /\ result.kind = "AlmaAPIError"
            /\ result.status_code = NoStatus

\* the transport failed on the second attempt, after one retry of a 503
C14_Witness ==
    /\ pc = "idle"
    /\ seen = <<503, NoStatus>>
    /\ result.kind = "AlmaAPIError"

\* C18: a call whose method is none of GET, POST, PUT, DELETE (compared
\* without regard to case) ends in a validation error, sends no HTTP request
\* and is not retried; a supported method in any case is sent.
C18_UnsupportedMethodRejected ==
    [][(pc = "request") =>
         IF Upper(method) \in {GET, POST, PUT, DELETE}
         THEN /\ sent' = Append(sent, now)
              /\ attempts' = attempts + 1
         ELSE /\ result'.kind = "AlmaValidationError"
              /\ result'.status_code = NoStatus
              /\ sent' = sent
              /\ attempts' = attempts
              /\ retry_count' = retry_count
              /\ delays' = delays
              /\ pc' = "idle"]_vars

\* a call with an unsupported method has been rejected without an attempt,
\* on an instance that had sent requests before
C18_Witness ==
    /\ pc = "idle"
    /\ result.kind = "AlmaValidationError"
    /\ result.status_code = NoStatus
    /\ attempts = 0
    /\ stamps = 1
    /\ sent # <<>>

\* C13: every HTTP attempt records exactly one timestamp in the rate window,
\* whatever its outcome: a logical call that makes k attempts (the first
\* attempt plus its retries) appends exactly k timestamps, also when it ends
\* in an error status or in a transport failure.
C13_OneTimestampPerAttempt ==
    /\ (pc = "enforce") => stamps = attempts
    /\ (pc = "request" /\ SupportedMethod(method)) => stamps = attempts + 1
    /\ (pc = "idle" /\ attempts >= 1) =>
          /\ stamps = attempts
          /\ Len(seen) = attempts

\* a call of three attempts ended in a transport failure, three timestamps
C13_Witness ==
    /\ pc = "idle"
    /\ seen = <<503, 429, NoStatus>>
    /\ stamps = 3

\* C12: construction succeeds only if every required credential is present:
\* ConfigManager() raises an error that lists exactly the required names
\* absent from the process environment whenever one is absent, and
\* AlmaAPIClient(env) raises whenever the API key of env is unset or empty;
\* in neither case does the caller obtain an instance.
C12_ConstructionNeedsCredentials ==
    /\ (built.cls = "ConfigManager" /\ built.env_arg = {}) =>
          LET absent == RequiredNames \ Environ(os_env, os_rest)
          IN  /\ (absent # {}) =>
                    /\ built.raised
                    /\ built.error = "EnvironmentError"
                    /\ {built.missing[i] : i \in DOMAIN built.missing} = absent
                    /\ Len(built.missing) = Cardinality(absent)
                    /\ built.instance = "none"
              /\ (built.instance # "none") => absent = {}
    /\ (built.cls = "AlmaAPIClient") =>
          /\ (Upper(built.name) = SANDBOX /\ os_env.sb \in {UNSET, ""}) =>
                built.raised /\ built.instance = "none"
          /\ (Upper(built.name) = PRODUCTION /\ os_env.prod \in {UNSET, ""}) =>
                built.raised /\ built.instance = "none"
          /\ (built.instance # "none") =>
                /\ ~built.raised
                /\ api_key \notin {UNSET, ""}
                /\ api_key = IF environment = SANDBOX THEN os_env.sb
                                                     ELSE os_env.prod

\* ConfigManager() has raised, naming the two absent variables in list order
C12_Witness ==
    /\ built.cls = "ConfigManager"
    /\ built.env_arg = {}
    /\ built.raised
    /\ built.missing = <<"ALMA_PROD_API_KEY", "AWS_SECRET">>

\* a header value without its parameters
MediaType(v) ==
    IF v \in {"application/json", "application/json;charset=utf-8",
              "application/json; charset=utf-8"} THEN "application/json"
    ELSE IF v \in {"application/xml", "application/xml;charset=utf-8"}
         THEN "application/xml"
    ELSE v

\* the media type a json/xml argument asks for
Requested(arg) == IF Lower(arg) = XML THEN "application/xml" ELSE "application/json"

\* C19: for every environment and every per-call override the prepared
\* request headers carry the authorization 'apikey <key of the active
\* environment>', with accept and content-type JSON when nothing is overridden
\* and XML when XML is asked for; and preparing the headers of one call leaves
\* the instance's default headers as they were.
C19_PreparedHeaders ==
    /\ (bc_prepared.op = "prepare_headers") =>
          LET h == SentHeaders(bc_prepared.headers)
          IN  /\ h.authorization =
                    <<"apikey ", GetApiKey(bc_prepared.environment)>>
              /\ MediaType(h.content_type) = Requested(bc_prepared.content_type)
              /\ MediaType(h.accept) = Requested(bc_prepared.accept)
              /\ bc_prepared.after = bc_prepared.before
    /\ (last.op = "prepare_headers") =>
          /\ prepared.authorization =
                <<"apikey ", IF environment = SANDBOX THEN os_env.sb
                                                       ELSE os_env.prod>>
          /\ (last.arg \in {<<"None">>, <<"">>}) =>
                /\ prepared.accept = "application/json"
                /\ prepared.content_type = "application/json"
          /\ (last.arg = <<"application/xml">>) =>
                /\ prepared.accept = "application/xml"
                /\ prepared.content_type = "application/xml"
          /\ default_headers = last.before.headers

\* the declared content type is application/json, whatever its case and
\* its parameters
DeclaredJson(ctype) ==
    ctype \in {"application/json", "application/json; charset=UTF-8",
               "Application/JSON"}

\* C20: a response built from a body whose declared content type is
\* application/json returns from its JSON accessor the structure that was
\* parsed from the body; a response built from a body of any other declared
\* content type holds the raw text and returns it unmodified.
C20_ResponseRoundTrip ==
    /\ (read.state = "json" /\ DeclaredJson(read.ctype) /\ IsJson(read.body)) =>
          /\ ~read.raised
          /\ read.type = JsonLoads(read.body).type
          /\ read.value = JsonLoads(read.body).value
    /\ (read.state # "none" /\ ~DeclaredJson(read.ctype)) =>
          read.data = [type |-> "str", value |-> read.body]
    /\ (read.state = "text" /\ ~DeclaredJson(read.ctype)) =>
          /\ ~read.raised
          /\ read.type = "str"
          /\ read.value = read.body

\* C28: a call rejected with a validation error before any response (an
\* unsupported method in _make_request, an empty query or a limit above 100
\* in search_records) has issued no HTTP request and has left the rate window
\* as it was: it recorded no timestamp.
C28_RejectedCallLeavesWindow ==
    (/\ pc = "idle"
     /\ result.kind = "AlmaValidationError"
     /\ result.status_code = NoStatus) =>
        /\ attempts = 0
        /\ stamps = 0

\* C24: every logical call on BaseAPIClient terminates, returning a Response
\* or raising an error, whatever the sequence of server responses and
\* transport failures, provided each HTTP attempt and each sleep completes;
\* and the depth of the retry recursion never exceeds 3.
C24_CallTerminates ==
    /\ [](retry_count <= 3)
    /\ (pc # "idle") ~> (pc = "idle" /\ (result.kind = "AlmaResponse" \/ IsError(result)))

\* a call has ended at recursion depth 3, its last attempt a transport failure
C24_Witness ==
    /\ pc = "idle"
    /\ retry_count = 3
    /\ seen = <<503, 503, 503, NoStatus>>
    /\ IsError(result)

\* C29: at any time get_rate_limit_status() reports requests_in_last_minute
\* equal to the number of requests of the instance recorded within the
\* trailing 60 seconds at the time of the question, and requests_remaining
\* equal to max(0, rate_limit - requests_in_last_minute), which lies between
\* 0 and rate_limit.
C29_StatusCountsTrailingMinute ==
    report.asked =>
        /\ report.requests_in_last_minute = report.recent
        /\ report.requests_remaining =
              Max(0, report.rate_limit - report.requests_in_last_minute)
        /\ 0 <= report.requests_remaining
        /\ report.requests_remaining <= report.rate_limit

\* both API keys are configured
BothKeys == os_env.sb = KEY_SB /\ os_env.prod = KEY_PROD

\* C23: with both API keys configured, switch_environment(B) followed by
\* switch_environment(A) on an AlmaAPIClient that was in environment A
\* restores the environment, the API key, the default headers and the base
\* URL it had before the two switches; and after each successful switch
\* get_environment() returns the environment switched to.
C23_SwitchThereAndBack ==
    /\ []((last.op = "switch_environment" /\ ~last.raised) =>
              environment = Upper(last.arg))
    /\ [][(/\ BothKeys
           /\ last.op = "switch_environment"
           /\ last'.op = "switch_environment"
           /\ last' # last
           /\ Upper(last'.arg) = last.before.environment)
          => /\ ~last'.raised
             /\ environment' = last.before.environment
             /\ api_key' = last.before.api_key
             /\ default_headers' = last.before.headers
             /\ base_url' = last.before.base_url]_vars

\* a client that was in SANDBOX and went to PRODUCTION has switched back
C23_Witness ==
    /\ BothKeys
    /\ last.op = "switch_environment"
    /\ ~last.raised
    /\ last.arg = <<"s","a","n","d","b","o","x">>
    /\ last.before.environment = PRODUCTION
    /\ last.before.api_key = KEY_PROD
    /\ environment = SANDBOX
    /\ api_key = KEY_SB

\* C22: safe_request never raises: for an unsupported method, a transport
\* failure or a 4xx/5xx response it returns None, and for a successful
\* response it returns the parsed JSON body or, when the body is not JSON,
\* the raw text.
C22_SafeRequestNeverRaises ==
    (safe.op = "safe_request") =>
        LET st == safe.outcome.status_code
        IN  /\ ~safe.raised
            /\ (\/ Upper(safe.method) \notin {GET, POST, PUT, DELETE}
                \/ st = NoStatus
                \/ (400 <= st /\ st < 600)) => safe.ret = NoneValue
            /\ (/\ Upper(safe.method) \in {GET, POST, PUT, DELETE}
                /\ 200 <= st /\ st < 300) =>
                  IF IsJson(safe.outcome.body)
                  THEN /\ safe.ret.type = JsonLoads(safe.outcome.body).type
                       /\ safe.ret.value = JsonLoads(safe.outcome.body).value
                  ELSE safe.ret = [type |-> "str", value |-> safe.outcome.body]

\* a 404 answered with a JSON body has been turned into None
C22_Witness ==
    /\ safe.op = "safe_request"
    /\ safe.method = <<"g","e","t">>
    /\ safe.outcome.status_code = 404
    /\ safe.outcome.body = "{obj}"
    /\ safe.ret = NoneValue

-----------------------------------------------------------------------------
(* Claims about the bulk invoice processor *)

\* C21: process_all_invoices handles the IDs in input order, goes on after a
\* failing invoice and stops right after the result that brings the error
\* count to max_errors: the results answer a prefix of the input one to one,
\* hold at most max_errors failed results under a positive ceiling, and
\* cover every input ID when no ceiling is set.
FailedResults == {k \in DOMAIN inv.results : ~inv.results[k].operation_success}

C21_StopsAtCeiling ==
    inv.state # "none" =>
      LET n       == Len(inv.results)
          ceiling == inv.max_errors # NoCeiling /\ inv.max_errors > 0
          reached == ceiling /\ Cardinality(FailedResults) = inv.max_errors
      IN  /\ n <= Len(inv.ids)
          /\ \A k \in 1 .. n : inv.results[k].invoice_id = inv.ids[k]
          /\ inv.error_count = Cardinality(FailedResults)
          /\ ceiling => Cardinality(FailedResults) <= inv.max_errors
          /\ reached => (inv.state = "done" /\ n \in FailedResults)
          /\ (inv.state = "done" /\ ~reached) => n = Len(inv.ids)
          /\ (inv.state = "running") => (~reached /\ n < Len(inv.ids))

C21_Witness ==
    /\ inv.state = "done"
    /\ inv.max_errors = 2
    /\ Len(inv.ids) = 3
    /\ Len(inv.results) = 2
    /\ FailedResults = {1, 2}

\* C25: process_single_invoice never raises and calls the API in the order
\* fetch, pay, verify; mark_invoice_paid is called at most once and only
\* after get_invoice returned an invoice that is neither closed nor paid;
\* for a closed or paid invoice no payment call is made and the result is
\* skipped, successful, and has final statuses equal to the initial ones.
C25_PayOnlyOpenInvoices ==
    \A k \in DOMAIN inv.results :
      LET r      == inv.results[k]
          w      == inv.worlds[k]
          pays   == {j \in DOMAIN r.calls : r.calls[j] = "mark_invoice_paid"}
          closed == \/ w.fetch.status \in {"CLOSED", "PAID", "CANCELLED"}
                    \/ w.fetch.payment \in {"PAID", "FULLY_PAID"}
      IN  /\ ~r.raised
          /\ r.calls \in {<<"get_invoice">>,
                          <<"get_invoice", "mark_invoice_paid">>,
                          <<"get_invoice", "mark_invoice_paid", "get_invoice">>}
          /\ Cardinality(pays) <= 1
          /\ pays # {} => (w.fetch.ok /\ ~closed)
          /\ (w.fetch.ok /\ closed) =>
                /\ pays = {}
                /\ r.skipped /\ r.operation_success
                /\ r.initial_status = w.fetch.status
                /\ r.initial_payment_status = w.fetch.payment
                /\ r.final_status = r.initial_status
                /\ r.final_payment_status = r.initial_payment_status

C25_Witness ==
    /\ Len(inv.results) = 2
    /\ inv.results[1].calls =
           <<"get_invoice", "mark_invoice_paid", "get_invoice">>
    /\ inv.results[1].status_changed
    /\ inv.worlds[2].fetch.ok
    /\ inv.worlds[2].fetch.status = "ACTIVE"
    /\ inv.worlds[2].fetch.payment = "FULLY_PAID"
    /\ inv.results[2].skipped

\* C30: in every result of process_single_invoice a true operation_success
\* comes with an empty error_message, and a result with a non-empty
\* error_message is counted as an error by process_all_invoices.
C30_SuccessHasNoError ==
    /\ \A k \in DOMAIN inv.results :
          inv.results[k].operation_success
              => inv.results[k].error_message = "None"
    /\ inv.error_count =
          Cardinality({k \in DOMAIN inv.results :
                          inv.results[k].error_message # "None"})

-----------------------------------------------------------------------------
(* Claims about Admin.get_set_members *)

PageRequests == SelectSeq(adm.requests, LAMBDA r : r.what = "members")
InfoRequests == SelectSeq(adm.requests, LAMBDA r : r.what = "set")

CeilDiv(a, b) == (a + b - 1) \div b

RECURSIVE PageIds(_)
PageIds(pages) ==
    IF pages = <<>> THEN <<>>
    ELSE ExtractMmsIds(Head(pages).member) \o PageIds(Tail(pages))

\* the page requests are the first ones of offsets 0, 100, 200, ... below
\* the total, each with limit 100
PagesInOrder ==
    \A k \in DOMAIN PageRequests :
        /\ PageRequests[k].limit = 100
        /\ PageRequests[k].offset = 100 * (k - 1)
        /\ PageRequests[k].offset < adm.info.number_of_members

\* C26: get_set_members issues one set-information request and then, for a
\* BIB_MMS set with T > 0 members, exactly ceil(T/100) page requests with
\* limit 100 at offsets 0, 100, 200, ... all below T, and returns the IDs of
\* the pages in page order; no page request for T = 0 (an empty list) or
\* for a set that is not BIB_MMS (an error); it always terminates.
C26_PagesCoverSet ==
    adm.state \in {"returned", "raised"} =>
      /\ Len(InfoRequests) = 1
      /\ adm.requests[1].what = "set"
      /\ (adm.info.ok /\ adm.info.content = "BIB_MMS"
             /\ adm.info.number_of_members > 0) =>
            /\ Len(PageRequests) = CeilDiv(adm.info.number_of_members, 100)
            /\ PagesInOrder
            /\ adm.state = "returned"
            /\ adm.all_mms_ids = PageIds(adm.pages)
      /\ (adm.info.ok /\ adm.info.content = "BIB_MMS"
             /\ adm.info.number_of_members = 0) =>
            (PageRequests = <<>> /\ adm.state = "returned"
               /\ adm.all_mms_ids = <<>>)
      /\ (adm.info.ok /\ adm.info.content # "BIB_MMS") =>
            (PageRequests = <<>> /\ adm.state = "raised")

\* C26 as amended: the same for a call with a set ID whose requests all
\* succeed; a failing request ends the call with an error after the page
\* requests sent so far, and a call without a set ID sends no request.
C26_PagesCoverSetWhenAllSucceed ==
    /\ [](adm.state # "none" =>
          /\ PagesInOrder
          /\ Len(PageRequests) <= CeilDiv(adm.info.number_of_members, 100)
          /\ Len(InfoRequests) = IF adm.set_id = "" THEN 0 ELSE 1
          /\ adm.requests # <<>> => adm.requests[1].what = "set"
          /\ adm.set_id = "" => (adm.state = "raised" /\ adm.requests = <<>>)
          /\ (adm.state = "raised" /\ adm.raised = "HTTPError") =>
                \/ ~adm.info.ok /\ PageRequests = <<>>
                \/ /\ adm.pages # <<>>
                   /\ ~adm.pages[Len(adm.pages)].ok
                   /\ \A k \in 1 .. Len(adm.pages) - 1 : adm.pages[k].ok
          /\ (adm.state = "returned" /\ adm.info.number_of_members > 0) =>
                /\ adm.info.content = "BIB_MMS"
                /\ Len(PageRequests)
                     = CeilDiv(adm.info.number_of_members, 100)
                /\ \A k \in DOMAIN adm.pages : adm.pages[k].ok
                /\ adm.all_mms_ids = PageIds(adm.pages)
          /\ (adm.set_id # "" /\ adm.info.ok
                 /\ adm.info.content = "BIB_MMS"
                 /\ adm.info.number_of_members = 0) =>
                (PageRequests = <<>> /\ adm.state = "returned"
                   /\ adm.all_mms_ids = <<>>)
          /\ (adm.set_id # "" /\ adm.info.ok
                 /\ adm.info.content # "BIB_MMS") =>
                (PageRequests = <<>> /\ adm.state = "raised"
                   /\ adm.raised = "ValueError"))
    /\ ((adm.state = "running") ~> (adm.state \in {"returned", "raised"}))

C26_Witness ==
    /\ adm.state = "returned"
    /\ adm.info.number_of_members = 201
    /\ Len(PageRequests) = 3
    /\ PageRequests[3].offset = 200
    /\ Len(adm.all_mms_ids) = 5

-----------------------------------------------------------------------------
(* Claims about the MARC field update *)

\* C27: the record built by _build_updated_marc_xml holds exactly one data
\* field with the target tag, carrying the given indicators and subfields,
\* at the place of the first original occurrence of the tag or at the end
\* when the tag was absent; the data fields with other tags, the leader and
\* the control fields are kept in their original relative order.
C27_OneTargetField ==
    marc.op = "built" =>
      LET out     == ParseXml(marc.xml)
          IsTarget(e) == e.kind = "datafield" /\ e.tag = marc.field
          targets == {i \in DOMAIN out : IsTarget(out[i])}
          firsts  == {i \in DOMAIN marc.root : IsTarget(marc.root[i])}
      IN  /\ Cardinality(targets) = 1
          /\ \A p \in targets :
                /\ out[p].ind1 = marc.ind1
                /\ out[p].ind2 = marc.ind2
                /\ out[p].subfields = marc.subfields
                /\ IF firsts = {} THEN p = Len(out)
                   ELSE LET first == CHOOSE i \in firsts :
                                        \A j \in firsts : i <= j
                        IN  SubSeq(out, 1, p - 1)
                              = SubSeq(marc.root, 1, first - 1)
          /\ SelectSeq(out, LAMBDA e : ~IsTarget(e))
               = SelectSeq(marc.root, LAMBDA e : ~IsTarget(e))

=============================================================================
